---- MODULE Spec2Model ----
(***************************************************************************)
(* Session lifecycle of the Phantom embedded-wallet demo as seen by the UI *)
(* layer: HomeScreen and WalletInfo (src/app/index.tsx), the direct        *)
(* provider ConnectButton (src/components/ConnectButton.tsx) and the modal *)
(* ConnectButton (src/unnamed/part_000).                                   *)
(*                                                                         *)
(* The JavaScript event loop is modelled run-to-completion: an external    *)
(* event (a press, the settlement of an SDK or RPC call) is taken only     *)
(* when every queued reaction (promise continuation, React effect) of the  *)
(* previous one has run; the order among queued reactions is free.         *)
(* A screen is identified by its position in the navigation stack.  There  *)
(* is no back navigation, so a screen covered by a push is never displayed *)
(* again: only its session observer and its timer are followed further.    *)
(* The one exception to run-to-completion is the unauthenticated screen,   *)
(* which can be pressed while the redirect that will replace it is still   *)
(* queued.  The sign and balance calls of a torn-down dashboard are not    *)
(* followed.                                                               *)
(***************************************************************************)
EXTENDS Integers, Sequences, FiniteSets, TLC

\* ---------------------------------------------------------------- bounds
MaxConnects == 2      \* user-initiated connect flows in one behaviour
MaxFetches == 2       \* balance lookups a user refresh may pile up

\* ------------------------------------------------------------- constants
NullBalance == -1     \* useState<number | null>(null)
NullProvider == "null"
Providers == {"google", "apple"}
Home == "/"
Wallet == "/wallet"

\* ------------------------------------------------------ strings as chars
Marker == <<"c","a","n","c","e","l","l","e","d">>
NoText == [defined |-> FALSE, text |-> <<>>]
Text(s) == [defined |-> TRUE, text |-> s]

\* String.prototype.includes
Includes(s, sub) ==
    \E i \in 0..(Len(s) - Len(sub)) : SubSeq(s, i + 1, i + Len(sub)) = sub

\* error values connect() may reject with (error?.message)
ErrorMessages ==
    { NoText,                                            \* no message field
      Text(<<>>),                                        \* ""
      Text(<<"U","s","e","r"," ">> \o Marker),           \* "User cancelled"
      Text(<<"C","a","n","c","e","l","l","e","d">>),     \* "Cancelled"
      Text(<<"t","i","m","e","o","u","t">>) }            \* "timeout"

\* ------------------------------------------------------------- addresses
Sol == "solana"
Eth == "ethereum"
Chains == {Sol, Eth}

\* the signers useSolana() / useEthereum() may offer to a connected session:
\* both, Solana's alone, none (Ethereum's alone mirrors Solana's alone)
Availabilities == {Chains, {Sol}, {}}
Addr(t, a) == [addressType |-> t, address |-> a]
NoAccount == [addressType |-> "none", address |-> ""]
AbsentAddresses == [present |-> FALSE, list |-> <<>>]
Addresses(l) == [present |-> TRUE, list |-> l]

\* address lists the SDK may deliver for a connected session; the last one
\* holds an Ethereum entry whose address is the empty string
AddressLists ==
    { <<>>,
      <<Addr(Sol, "A"), Addr(Eth, "B")>>,
      <<Addr(Eth, "B"), Addr(Sol, "C")>>,
      <<Addr(Sol, "A"), Addr(Sol, "C")>>,
      <<Addr(Eth, "B")>>,
      <<Addr(Eth, "")>> }

\* replacements of a connected session's address list: the Solana account
\* "A" gives way to the Solana account "C"
AddressChanges ==
    { <<<<Addr(Sol, "A"), Addr(Eth, "B")>>, <<Addr(Eth, "B"), Addr(Sol, "C")>>>>,
      <<<<Addr(Sol, "A"), Addr(Sol, "C")>>, <<Addr(Eth, "B"), Addr(Sol, "C")>>>> }

\* balances the RPC helper may return, in units of 0.00001 SOL
Balances == {4, 15}

\* what the RPC helper answers for an address while the model runs
BalanceOf(a) == IF a = "A" THEN 4 ELSE 15

VARIABLES
    variant,        \* which ConnectButton the build ships: "direct" | "modal"
    isConnected,    \* useAccounts().isConnected
    addresses,      \* useAccounts().addresses
    isConnecting,   \* useConnect().isConnecting
    isDisconnecting,\* useDisconnect().isDisconnecting
    modalOpened,    \* useModal().isOpened
    sdkFlow,        \* connect flow run by the SDK itself: "none"|"auto"|"modal"
    stack,          \* navigation stack of mounted screens, top last
    orphans,        \* pending auto-open timers whose view is torn down
    handlers,       \* handleConnect invocations not yet finished
    disc,           \* the handleDisconnect invocation
    fetches,        \* getBalance calls in flight
    connects,       \* user-initiated connect flows so far
    available,      \* chains whose signer useSolana()/useEthereum() offers
    signs,          \* signMessage / signPersonalMessage calls in flight
    tornEarly,      \* some view was torn down while its timer was pending
    tornOpens,      \* modal.open() calls made by timers of torn-down views
    step            \* what the last step did: event, alerts, navigations

vars == <<variant, isConnected, addresses, isConnecting, isDisconnecting,
          modalOpened, sdkFlow, stack, orphans, handlers, disc, fetches,
          connects, available, signs, tornEarly, tornOpens, step>>

\* ------------------------------------------------------------- selectors
RECURSIVE FindLast(_, _)
FindLast(l, t) ==
    IF l = <<>> THEN NoAccount
    ELSE IF l[Len(l)].addressType = t THEN l[Len(l)]
    ELSE FindLast(SubSeq(l, 1, Len(l) - 1), t)

FindOnlyHead(l, t) ==
    IF l # <<>> /\ Head(l).addressType = t THEN Head(l) ELSE NoAccount

\* Array.prototype.find with the predicate addr.addressType === t
RECURSIVE FindFirst(_, _)
FindFirst(l, t) ==
    IF l = <<>> THEN NoAccount
    ELSE IF Head(l).addressType = t THEN Head(l)
    ELSE FindFirst(Tail(l), t)

\* addresses?.find(addr => addr.addressType === chainType)
selectAccount(a, t) ==
    IF ~a.present THEN NoAccount ELSE FindFirst(a.list, t)

solanaAccount == selectAccount(addresses, Sol)
ethereumAccount == selectAccount(addresses, Eth)

\* solanaAccount?.address, "" when there is none (falsy either way)
SolAddressOf(a) == selectAccount(a, Sol).address

\* the early return of WalletInfo: the loading view
DashboardLoadingEither == solanaAccount = NoAccount \/ ethereumAccount = NoAccount
DashboardLoading == solanaAccount = NoAccount /\ ethereumAccount = NoAccount
DashboardReady == ~DashboardLoading
SolanaCardShown == DashboardReady /\ solanaAccount # NoAccount
EthereumCardShown == DashboardReady /\ ethereumAccount # NoAccount

\* solBalance?.toFixed(4) ?? '0.0000', in units of 0.0001 SOL
ToFixed4(b) == (b + 5) \div 10
DisplayedBalance(b) == IF b = NullBalance THEN 0 ELSE ToFixed4(b)

\* ---------------------------------------------------------------- stack
Top == stack[Len(stack)]

\* the mount effect of the modal ConnectButton:
\* if (!isConnected && !modal.isOpened) setTimeout(...)
SchedulesTimer(route) ==
    variant = "modal" /\ route = Home /\ ~isConnected /\ ~modalOpened

\* a screen instance right after its first render; its effects are queued
NewScreen(route) ==
    [route |-> route,
     obsFx |-> TRUE,                      \* session observer effect queued
     balFx |-> (route = Wallet),          \* balance effect queued
     activeProvider |-> NullProvider, userError |-> NoText,
     solBalance |-> NullBalance, isLoadingBalance |-> FALSE,
     balanceFor |-> "",                   \* address solBalance was fetched for
     isSigning |-> FALSE,
     idleAtMount |-> (variant = "modal" /\ route = Home
                      /\ ~isConnected /\ ~modalOpened),
     sched |-> IF SchedulesTimer(route) THEN 1 ELSE 0,   \* setTimeout calls
     pend  |-> IF SchedulesTimer(route) THEN 1 ELSE 0,   \* timers pending
     opens |-> 0]                                        \* open() by its timer

\* a state setter of the screen at position k; a no-op once it is unmounted
SetAt(st, k, f, v) ==
    IF k \in DOMAIN st THEN [st EXCEPT ![k][f] = v] ELSE st

\* the effect cleanup, return () => clearTimeout(timer): timers left pending
ClearTimeoutForgotten(n) == n
ClearTimeout(n) == 0

\* a screen covered by a push is not displayed again
Cover(e) ==
    [e EXCEPT !.balFx = FALSE, !.solBalance = NullBalance,
              !.isLoadingBalance = FALSE, !.balanceFor = ""]

Release(hs, k) ==
    [i \in DOMAIN hs |-> IF hs[i].owner = k THEN [hs[i] EXCEPT !.owner = 0]
                         ELSE hs[i]]
DropFetches(fs, k) == SelectSeq(fs, LAMBDA f : f.owner # k)
\* the sign calls of a torn-down dashboard are followed no further: what is
\* left of their handlers finds no mounted component to update
DropSigns(sg, k) == SelectSeq(sg, LAMBDA c : c.owner # k)

\* router.push(to) / router.replace(to) applied to stack value st
NavResult(st, kind, to) ==
    LET n   == Len(st)
        old == st[n]
    IN IF kind = "replace"
       THEN [stack    |-> Append(SubSeq(st, 1, n - 1), NewScreen(to)),
             handlers |-> Release(handlers, n),
             disc     |-> IF disc.owner = n THEN [disc EXCEPT !.owner = 0] ELSE disc,
             fetches  |-> DropFetches(fetches, n),
             signs    |-> DropSigns(signs, n),
             orphans  |-> orphans + ClearTimeout(old.pend),
             tornEarly |-> tornEarly \/ old.pend > 0]
       ELSE [stack    |-> Append([st EXCEPT ![n] = Cover(old)], NewScreen(to)),
             handlers |-> handlers,
             disc     |-> disc,
             fetches  |-> DropFetches(fetches, n),
             signs    |-> DropSigns(signs, n),
             orphans  |-> orphans,
             tornEarly |-> tornEarly]

NoNav(st) ==
    [stack |-> st, handlers |-> handlers, disc |-> disc, fetches |-> fetches,
     signs |-> signs, orphans |-> orphans, tornEarly |-> tornEarly]

NavCall(by, kind, to) == [by |-> by, kind |-> kind, to |-> to]
AlertCall(title, msg) == [title |-> title, message |-> msg]
Did(ev, alerts, navs, err) ==
    [event |-> ev, arg |-> "", alerts |-> alerts, navs |-> navs, err |-> err]

\* the session signal changed: queue the effects whose dependencies changed
MarkEffects(st, newConn, newAddr) ==
    [i \in DOMAIN st |->
        [st[i] EXCEPT
            !.obsFx = @ \/ (newConn # isConnected),
            !.balFx = @ \/ (i = Len(st) /\ st[i].route = Wallet
                            /\ SolAddressOf(newAddr) # SolAddressOf(addresses))]]

\* no promise continuation is queued
ContinuationsDone ==
    /\ \A i \in DOMAIN handlers : handlers[i].state = "awaiting"
    /\ disc.state \in {"idle", "awaiting"}

Quiescent ==
    /\ \A i \in DOMAIN stack : ~stack[i].obsFx /\ ~stack[i].balFx
    /\ ContinuationsDone

\* the user can press a control of the focused screen once the effects of
\* its render have run
CanPress(route) == Quiescent /\ ~modalOpened /\ Top.route = route

\* the unauthenticated screen stays on display, as last rendered, until a
\* navigation requested by a pending effect has replaced it
CanPressHome == ContinuationsDone /\ ~modalOpened /\ Top.route = Home

Remove(s, i) == SubSeq(s, 1, i - 1) \o SubSeq(s, i + 1, Len(s))

\* ----------------------------------------------------------------- Init
Init ==
    /\ variant \in {"direct", "modal"}
    /\ isConnected = FALSE
    /\ addresses \in {AbsentAddresses, Addresses(<<>>)}
    /\ sdkFlow \in {"none", "auto"}
    /\ isConnecting = (sdkFlow = "auto")
    /\ isDisconnecting = FALSE
    /\ modalOpened = FALSE
    /\ stack = <<[route |-> Home, obsFx |-> TRUE, balFx |-> FALSE,
                  activeProvider |-> NullProvider, userError |-> NoText,
                  solBalance |-> NullBalance, isLoadingBalance |-> FALSE,
                  balanceFor |-> "", isSigning |-> FALSE,
                  idleAtMount |-> (variant = "modal"),
                  sched |-> IF variant = "modal" THEN 1 ELSE 0,
                  pend |-> IF variant = "modal" THEN 1 ELSE 0,
                  opens |-> 0]>>
    /\ orphans = 0
    /\ handlers = <<>>
    /\ disc = [state |-> "idle", owner |-> 0]
    /\ fetches = <<>>
    /\ connects = 0
    /\ available = {}
    /\ signs = <<>>
    /\ tornEarly = FALSE
    /\ tornOpens = 0
    /\ step = Did("init", <<>>, <<>>, NoText)

\* ------------------------------------------- direct-provider ConnectButton
\* disabled={isConnecting} on both provider buttons
ConnectNeverDisabled == FALSE
ConnectDisabled == isConnecting

\* if (isConnected) return null
ConnectNeverHidden == FALSE
ConnectHidden == isConnected

\* error?.message && !error.message.includes('cancelled')
ShowsEveryMessage(err) == err.defined /\ err.text # <<>>
ShowsConnectError(err) ==
    err.defined /\ err.text # <<>> /\ ~Includes(err.text, Marker)

\* onPress={() => handleConnect(p)} up to the await: the state setters
\* and the SDK connect call, which raises isConnecting.  A disabled button
\* swallows the press.
PressConnect(p) ==
    /\ variant = "direct"
    /\ CanPressHome
    /\ ~ConnectHidden
    /\ ConnectDisabled \/ connects < MaxConnects
    /\ IF ConnectDisabled
       THEN UNCHANGED <<handlers, stack, isConnecting, connects>>
       ELSE /\ handlers' = Append(handlers,
                   [owner |-> Len(stack), provider |-> p,
                    state |-> "awaiting", err |-> NoText])
            /\ stack' = SetAt(SetAt(stack, Len(stack), "activeProvider", p),
                              Len(stack), "userError", NoText)
            /\ isConnecting' = TRUE
            /\ connects' = connects + 1
    /\ step' = [Did("pressConnect", <<>>, <<>>, NoText) EXCEPT !.arg = p]
    /\ UNCHANGED <<available, signs, variant, isConnected, addresses, isDisconnecting, modalOpened,
                   sdkFlow, orphans, disc, fetches, tornEarly, tornOpens>>

\* the SDK settles connect({ provider }): the session signal changes on
\* success; the awaiting handler is queued to resume
ConnectSettleOk(i, l, av) ==
    /\ Quiescent
    /\ i \in DOMAIN handlers
    /\ handlers[i].state = "awaiting"
    /\ isConnected' = TRUE
    /\ addresses' = Addresses(l)
    /\ available' = av
    /\ isConnecting' = FALSE
    /\ stack' = MarkEffects(stack, TRUE, Addresses(l))
    /\ handlers' = [handlers EXCEPT ![i].state = "resolved"]
    /\ step' = Did("connectSettled", <<>>, <<>>, NoText)
    /\ UNCHANGED <<signs, variant, isDisconnecting, modalOpened, sdkFlow, orphans, disc,
                   fetches, connects, tornEarly, tornOpens>>

ConnectSettleErr(i, e) ==
    /\ Quiescent
    /\ i \in DOMAIN handlers
    /\ handlers[i].state = "awaiting"
    /\ isConnecting' = FALSE
    /\ handlers' = [handlers EXCEPT ![i].state = "rejected", ![i].err = e]
    /\ step' = Did("connectSettled", <<>>, <<>>, NoText)
    /\ UNCHANGED <<available, signs, variant, isConnected, addresses, isDisconnecting, modalOpened,
                   sdkFlow, stack, orphans, disc, fetches, connects, tornEarly,
                   tornOpens>>

\* handleConnect after the await: router.push on success; catch; finally
ConnectResume(i) ==
    /\ i \in DOMAIN handlers
    /\ handlers[i].state \in {"resolved", "rejected"}
    /\ LET h == handlers[i]
           ok == h.state = "resolved"
           shows == ~ok /\ ShowsConnectError(h.err)
           nav == IF ok THEN NavResult(stack, "push", Wallet) ELSE NoNav(stack)
           st1 == IF shows THEN SetAt(nav.stack, h.owner, "userError", h.err)
                  ELSE nav.stack
       IN /\ stack' = SetAt(st1, h.owner, "activeProvider", NullProvider)
          /\ fetches' = nav.fetches
          /\ signs' = nav.signs
          /\ step' = Did(IF ok THEN "connectSucceeded" ELSE "connectFailed",
                         IF shows THEN <<AlertCall("Connection Failed", h.err)>>
                         ELSE <<>>,
                         IF ok THEN <<NavCall("handleConnect", "push", Wallet)>>
                         ELSE <<>>,
                         h.err)
    /\ handlers' = Remove(handlers, i)
    /\ UNCHANGED <<available, variant, isConnected, addresses, isConnecting, isDisconnecting,
                   modalOpened, sdkFlow, orphans, disc, connects, tornEarly,
                   tornOpens>>

\* ------------------------------------------------------ session observers
\* HomeScreen: if (isConnected) router.replace('/wallet')
HomeAlwaysRedirects == TRUE
HomeRedirects == isConnected
\* WalletInfo: if (!isConnected) router.replace('/')
WalletNeverRedirects == FALSE
WalletRedirects == ~isConnected

ObserverEffect(i) ==
    /\ i \in DOMAIN stack
    /\ stack[i].obsFx
    /\ LET st == [stack EXCEPT ![i].obsFx = FALSE]
           isHome == stack[i].route = Home
           goes == IF isHome THEN HomeRedirects ELSE WalletRedirects
           to == IF isHome THEN Wallet ELSE Home
           by == IF isHome THEN "HomeScreen" ELSE "WalletInfo"
           nav == IF goes THEN NavResult(st, "replace", to) ELSE NoNav(st)
       IN /\ stack' = nav.stack
          /\ handlers' = nav.handlers
          /\ disc' = nav.disc
          /\ fetches' = nav.fetches
          /\ signs' = nav.signs
          /\ orphans' = nav.orphans
          /\ tornEarly' = nav.tornEarly
          /\ step' = Did("observer", <<>>,
                         IF goes THEN <<NavCall(by, "replace", to)>> ELSE <<>>,
                         NoText)
    /\ UNCHANGED <<available, variant, isConnected, addresses, isConnecting, isDisconnecting,
                   modalOpened, sdkFlow, connects, tornOpens>>

\* ------------------------------------------------------------- WalletInfo
\* useEffect(..., [solanaAccount?.address]): fetchBalance up to its await
BalanceEffect(i) ==
    /\ i \in DOMAIN stack
    /\ stack[i].balFx
    /\ LET a == SolAddressOf(addresses)
           st == [stack EXCEPT ![i].balFx = FALSE]
       IN IF a # ""
          THEN /\ stack' = SetAt(st, i, "isLoadingBalance", TRUE)
               /\ fetches' = Append(fetches, [owner |-> i, address |-> a])
          ELSE /\ stack' = st
               /\ UNCHANGED fetches
    /\ step' = Did("balanceEffect", <<>>, <<>>, NoText)
    /\ UNCHANGED <<available, signs, variant, isConnected, addresses, isConnecting, isDisconnecting,
                   modalOpened, sdkFlow, orphans, handlers, disc, connects,
                   tornEarly, tornOpens>>

\* the refresh control of the Solana card: fetchBalance up to its await
PressRefresh ==
    /\ CanPress(Wallet)
    /\ SolanaCardShown
    /\ Len(fetches) < MaxFetches
    /\ stack' = SetAt(stack, Len(stack), "isLoadingBalance", TRUE)
    /\ fetches' = Append(fetches, [owner |-> Len(stack),
                                   address |-> solanaAccount.address])
    /\ step' = Did("pressRefresh", <<>>, <<>>, NoText)
    /\ UNCHANGED <<available, signs, variant, isConnected, addresses, isConnecting, isDisconnecting,
                   modalOpened, sdkFlow, orphans, handlers, disc, connects,
                   tornEarly, tornOpens>>

\* fetchBalance after the await, getBalance resolved: setSolBalance; finally
FetchResolved(k, b) ==
    /\ Quiescent
    /\ k \in DOMAIN fetches
    /\ b = BalanceOf(fetches[k].address)
    /\ stack' = SetAt(SetAt(SetAt(stack, fetches[k].owner, "solBalance", b),
                            fetches[k].owner, "balanceFor", fetches[k].address),
                      fetches[k].owner, "isLoadingBalance", FALSE)
    /\ fetches' = Remove(fetches, k)
    /\ step' = Did("fetchResolved", <<>>, <<>>, NoText)
    /\ UNCHANGED <<available, signs, variant, isConnected, addresses, isConnecting, isDisconnecting,
                   modalOpened, sdkFlow, orphans, handlers, disc, connects,
                   tornEarly, tornOpens>>

\* what the catch block of fetchBalance leaves in solBalance
BalanceAfterFailureReset(b) == NullBalance
BalanceAfterFailure(b) == b

\* fetchBalance after the await, getBalance rejected: catch logs; finally
FetchRejected(k) ==
    /\ Quiescent
    /\ k \in DOMAIN fetches
    /\ LET o == fetches[k].owner
       IN stack' = SetAt(SetAt(stack, o, "solBalance",
                               BalanceAfterFailure(stack[o].solBalance)),
                         o, "isLoadingBalance", FALSE)
    /\ fetches' = Remove(fetches, k)
    /\ step' = Did("fetchRejected", <<>>, <<>>, NoText)
    /\ UNCHANGED <<available, signs, variant, isConnected, addresses, isConnecting, isDisconnecting,
                   modalOpened, sdkFlow, orphans, handlers, disc, connects,
                   tornEarly, tornOpens>>

\* disabled={isDisconnecting} on the log-out control, shown in the ready view
PressDisconnect ==
    /\ CanPress(Wallet)
    /\ DashboardReady
    /\ ~isDisconnecting
    /\ disc.state = "idle"
    /\ disc' = [state |-> "awaiting", owner |-> Len(stack)]
    /\ isDisconnecting' = TRUE
    /\ step' = Did("pressDisconnect", <<>>, <<>>, NoText)
    /\ UNCHANGED <<available, signs, variant, isConnected, addresses, isConnecting, modalOpened,
                   sdkFlow, stack, orphans, handlers, fetches, connects,
                   tornEarly, tornOpens>>

\* the addresses of a session the SDK has disconnected
KeptAddresses == addresses
ClearedAddresses == Addresses(<<>>)

\* the SDK settles disconnect(): success clears the session
DisconnectSettleOk ==
    /\ Quiescent
    /\ disc.state = "awaiting"
    /\ isConnected' = FALSE
    /\ addresses' = ClearedAddresses
    /\ available' = {}
    /\ isDisconnecting' = FALSE
    /\ stack' = MarkEffects(stack, FALSE, ClearedAddresses)
    /\ disc' = [disc EXCEPT !.state = "resolved"]
    /\ step' = Did("disconnectSettled", <<>>, <<>>, NoText)
    /\ UNCHANGED <<signs, variant, isConnecting, modalOpened, sdkFlow, orphans,
                   handlers, fetches, connects, tornEarly, tornOpens>>

DisconnectSettleErr ==
    /\ Quiescent
    /\ disc.state = "awaiting"
    /\ isDisconnecting' = FALSE
    /\ disc' = [disc EXCEPT !.state = "rejected"]
    /\ step' = Did("disconnectSettled", <<>>, <<>>, NoText)
    /\ UNCHANGED <<available, signs, variant, isConnected, addresses, isConnecting, modalOpened,
                   sdkFlow, stack, orphans, handlers, fetches, connects,
                   tornEarly, tornOpens>>

\* handleDisconnect after the await: router.replace('/') inside the try,
\* console.error in the catch
DisconnectResume ==
    /\ disc.state \in {"resolved", "rejected"}
    /\ LET ok == disc.state = "resolved"
           nav == IF ok THEN NavResult(stack, "replace", Home) ELSE NoNav(stack)
       IN /\ stack' = nav.stack
          /\ handlers' = nav.handlers
          /\ fetches' = nav.fetches
          /\ signs' = nav.signs
          /\ orphans' = nav.orphans
          /\ tornEarly' = nav.tornEarly
          /\ step' = Did(IF ok THEN "disconnectSucceeded" ELSE "disconnectFailed",
                         <<>>,
                         IF ok THEN <<NavCall("handleDisconnect", "replace", Home)>>
                         ELSE <<>>,
                         NoText)
    /\ disc' = [state |-> "idle", owner |-> 0]
    /\ UNCHANGED <<available, variant, isConnected, addresses, isConnecting, isDisconnecting,
                   modalOpened, sdkFlow, connects, tornOpens>>

\* --------------------------------------------------- modal and SDK flows
\* timers of a view still pending once one of them has run its callback
AfterFireRepeats(n) == n
AfterFire(n) == n - 1

\* the setTimeout callback of the modal ConnectButton: modal.open();
\* position 0 stands for a timer whose view is torn down
TimerFire(i) ==
    /\ IF i = 0
       THEN /\ orphans > 0
            /\ orphans' = AfterFire(orphans)
            /\ tornOpens' = tornOpens + 1
            /\ UNCHANGED stack
       ELSE /\ i \in DOMAIN stack
            /\ stack[i].pend > 0
            /\ stack' = [stack EXCEPT ![i].pend = AfterFire(@),
                                      ![i].opens = @ + 1]
            /\ UNCHANGED <<orphans, tornOpens>>
    /\ modalOpened' = TRUE
    /\ step' = Did("timerFired", <<>>, <<>>, NoText)
    /\ UNCHANGED <<available, signs, variant, isConnected, addresses, isConnecting, isDisconnecting,
                   sdkFlow, handlers, disc, fetches, connects, tornEarly>>

\* onPress={() => modal.open()} of the modal ConnectButton
PressLogin ==
    /\ variant = "modal"
    /\ CanPressHome
    /\ ~ConnectHidden
    /\ modalOpened' = TRUE
    /\ step' = Did("pressLogin", <<>>, <<>>, NoText)
    /\ UNCHANGED <<available, signs, variant, isConnected, addresses, isConnecting, isDisconnecting,
                   sdkFlow, stack, orphans, handlers, disc, fetches, connects,
                   tornEarly, tornOpens>>

\* the Account Settings control of the ready dashboard: modal.open()
PressAccountSettings ==
    /\ CanPress(Wallet)
    /\ DashboardReady
    /\ modalOpened' = TRUE
    /\ step' = Did("pressAccountSettings", <<>>, <<>>, NoText)
    /\ UNCHANGED <<available, signs, variant, isConnected, addresses, isConnecting, isDisconnecting,
                   sdkFlow, stack, orphans, handlers, disc, fetches, connects,
                   tornEarly, tornOpens>>

\* the user dismisses the SDK modal
ModalClose ==
    /\ Quiescent
    /\ modalOpened
    /\ modalOpened' = FALSE
    /\ step' = Did("modalClosed", <<>>, <<>>, NoText)
    /\ UNCHANGED <<available, signs, variant, isConnected, addresses, isConnecting, isDisconnecting,
                   sdkFlow, stack, orphans, handlers, disc, fetches, connects,
                   tornEarly, tornOpens>>

\* the user picks a provider inside the SDK modal
ModalPick(p) ==
    /\ Quiescent
    /\ modalOpened
    /\ ~isConnected
    /\ ~isConnecting
    /\ sdkFlow = "none"
    /\ connects < MaxConnects
    /\ sdkFlow' = "modal"
    /\ isConnecting' = TRUE
    /\ connects' = connects + 1
    /\ step' = Did("modalPick", <<>>, <<>>, NoText)
    /\ UNCHANGED <<available, signs, variant, isConnected, addresses, isDisconnecting, modalOpened,
                   stack, orphans, handlers, disc, fetches, tornEarly, tornOpens>>

\* a connect flow run by the SDK itself (auto-connect at start, or the modal)
\* succeeds: only the session signal tells the application
SdkFlowOk(l, av) ==
    /\ Quiescent
    /\ sdkFlow # "none"
    /\ isConnected' = TRUE
    /\ addresses' = Addresses(l)
    /\ available' = av
    /\ isConnecting' = FALSE
    /\ modalOpened' = IF sdkFlow = "modal" THEN FALSE ELSE modalOpened
    /\ sdkFlow' = "none"
    /\ stack' = MarkEffects(stack, TRUE, Addresses(l))
    /\ step' = Did("sdkFlowSettled", <<>>, <<>>, NoText)
    /\ UNCHANGED <<signs, variant, isDisconnecting, orphans, handlers, disc, fetches,
                   connects, tornEarly, tornOpens>>

SdkFlowErr ==
    /\ Quiescent
    /\ sdkFlow # "none"
    /\ isConnecting' = FALSE
    /\ sdkFlow' = "none"
    /\ step' = Did("sdkFlowSettled", <<>>, <<>>, NoText)
    /\ UNCHANGED <<available, signs, variant, isConnected, addresses, isDisconnecting, modalOpened,
                   stack, orphans, handlers, disc, fetches, connects, tornEarly,
                   tornOpens>>

\* the SDK delivers the addresses of a connected session, or changes them
AddressesDelivered(l) ==
    /\ Quiescent
    /\ isConnected
    /\ l # <<>>
    /\ addresses.list = <<>> \/ <<addresses.list, l>> \in AddressChanges
    /\ addresses' = Addresses(l)
    /\ stack' = MarkEffects(stack, isConnected, Addresses(l))
    /\ step' = Did("addressesDelivered", <<>>, <<>>, NoText)
    /\ UNCHANGED <<available, signs, variant, isConnected, isConnecting, isDisconnecting, modalOpened,
                   sdkFlow, orphans, handlers, disc, fetches, connects, tornEarly,
                   tornOpens>>

\* ---------------------------------------------------------------- signing
\* disabled={isSigning || !isSolanaAvailable} and its Ethereum twin
SignNeverDisabledBySigning(c) == c \notin available
SignDisabled(c) == Top.isSigning \/ c \notin available

\* the card that carries the sign control of chain c
CardShown(c) == IF c = Sol THEN SolanaCardShown ELSE EthereumCardShown

\* if (!isSolanaAvailable || !solana) return;
\* if (!isEthereumAvailable || !ethereum || !ethereumAccount?.address) return;
SignPreconditionAvailabilityOnly(c) == c \in available
SignPrecondition(c) ==
    IF c = Sol THEN Sol \in available
    ELSE Eth \in available /\ ethereumAccount.address # ""

\* onPress={handleSignSolanaMessage} / {handleSignEthereumMessage} up to the
\* await; a disabled control swallows the press
PressSign(c) ==
    /\ CanPress(Wallet)
    /\ CardShown(c)
    /\ IF SignDisabled(c) \/ ~SignPrecondition(c)
       THEN UNCHANGED <<stack, signs>>
       ELSE /\ stack' = SetAt(stack, Len(stack), "isSigning", TRUE)
            /\ signs' = Append(signs, [owner |-> Len(stack), chain |-> c])
    /\ step' = [Did("pressSign", <<>>, <<>>, NoText) EXCEPT !.arg = c]
    /\ UNCHANGED <<available, variant, isConnected, addresses, isConnecting,
                   isDisconnecting, modalOpened, sdkFlow, orphans, handlers, disc,
                   fetches, connects, tornEarly, tornOpens>>

\* `Signature: ${signature.signature.slice(0, 16)}...`
SignatureText == Text(<<"S","i","g","n","a","t","u","r","e">>)

\* what the finally block of a sign handler leaves in isSigning
SigningAfterFailureStuck(ok) == ~ok
SigningAfterSettle(ok) == FALSE

\* a sign handler after the await, the SDK call resolved: alert; finally
SignResolved(k) ==
    /\ Quiescent
    /\ k \in DOMAIN signs
    /\ stack' = SetAt(stack, signs[k].owner, "isSigning", SigningAfterSettle(TRUE))
    /\ signs' = Remove(signs, k)
    /\ step' = [Did("signSucceeded", <<AlertCall("Signed!", SignatureText)>>,
                    <<>>, NoText) EXCEPT !.arg = signs[k].chain]
    /\ UNCHANGED <<available, variant, isConnected, addresses, isConnecting,
                   isDisconnecting, modalOpened, sdkFlow, orphans, handlers, disc,
                   fetches, connects, tornEarly, tornOpens>>

\* !error?.message?.includes('cancelled')
ShowsSignErrorLikeConnect(err) == ShowsConnectError(err)
ShowsSignError(err) == ~(err.defined /\ Includes(err.text, Marker))

\* error?.message || 'Signing failed'
SigningFailed == Text(<<"S","i","g","n","i","n","g"," ","f","a","i","l","e","d">>)
SignAlertMessage(err) ==
    IF err.defined /\ err.text # <<>> THEN err ELSE SigningFailed

\* a sign handler after the await, the SDK call rejected: catch; finally
SignRejected(k, e) ==
    /\ Quiescent
    /\ k \in DOMAIN signs
    /\ stack' = SetAt(stack, signs[k].owner, "isSigning", SigningAfterSettle(FALSE))
    /\ signs' = Remove(signs, k)
    /\ step' = [Did("signFailed",
                    IF ShowsSignError(e)
                    THEN <<AlertCall("Error", SignAlertMessage(e))>>
                    ELSE <<>>,
                    <<>>, e) EXCEPT !.arg = signs[k].chain]
    /\ UNCHANGED <<available, variant, isConnected, addresses, isConnecting,
                   isDisconnecting, modalOpened, sdkFlow, orphans, handlers, disc,
                   fetches, connects, tornEarly, tornOpens>>

\* ------------------------------------------------------------------ Next
Reaction ==
    \/ \E i \in DOMAIN handlers : ConnectResume(i)
    \/ DisconnectResume
    \/ \E i \in DOMAIN stack : ObserverEffect(i)
    \/ \E i \in DOMAIN stack : BalanceEffect(i)

Next ==
    \/ \E p \in Providers : PressConnect(p)
    \/ \E i \in DOMAIN handlers, l \in AddressLists, av \in Availabilities :
          ConnectSettleOk(i, l, av)
    \/ \E i \in DOMAIN handlers, e \in ErrorMessages : ConnectSettleErr(i, e)
    \/ \E i \in DOMAIN handlers : ConnectResume(i)
    \/ \E i \in DOMAIN stack : ObserverEffect(i)
    \/ \E i \in DOMAIN stack : BalanceEffect(i)
    \/ PressRefresh
    \/ \E k \in DOMAIN fetches, b \in Balances : FetchResolved(k, b)
    \/ \E k \in DOMAIN fetches : FetchRejected(k)
    \/ PressDisconnect
    \/ DisconnectSettleOk
    \/ DisconnectSettleErr
    \/ DisconnectResume
    \/ \E i \in 0..Len(stack) : TimerFire(i)
    \/ PressLogin
    \/ PressAccountSettings
    \/ ModalClose
    \/ \E p \in Providers : ModalPick(p)
    \/ \E l \in AddressLists, av \in Availabilities : SdkFlowOk(l, av)
    \/ SdkFlowErr
    \/ \E l \in AddressLists : AddressesDelivered(l)
    \/ \E c \in Chains : PressSign(c)
    \/ \E k \in DOMAIN signs : SignResolved(k)
    \/ \E k \in DOMAIN signs, e \in ErrorMessages : SignRejected(k, e)

Spec == Init /\ [][Next]_vars

\* queued reactions always get to run, and a pending timer elapses
FairSpec ==
    Spec /\ WF_vars(Reaction) /\ WF_vars(\E i \in 0..Len(stack) : TimerFire(i))

\* every SDK sign call eventually completes
SignSettles ==
    \/ \E k \in DOMAIN signs : SignResolved(k)
    \/ \E k \in DOMAIN signs, e \in ErrorMessages : SignRejected(k, e)
SignFairSpec == Spec /\ WF_vars(Reaction) /\ SF_vars(SignSettles)

\* =================================================================
\* Properties
\* =================================================================
AwaitingConnects == {i \in DOMAIN handlers : handlers[i].state = "awaiting"}
ObserversDrained == \A i \in DOMAIN stack : ~stack[i].obsFx
TargetView == IF isConnected THEN Wallet ELSE Home

\* s = pre \o "cancelled" \o post for some pre, post
ContainsMarker(s) ==
    \E a \in 0..Len(s), b \in 0..Len(s) :
        /\ a + Len(Marker) + b = Len(s)
        /\ SubSeq(s, 1, a) \o Marker \o SubSeq(s, Len(s) - b + 1, Len(s)) = s
IndicatesCancellation(err) == err.defined /\ ContainsMarker(err.text)

\* C1: in the direct-provider flow at most one SDK connect call is in flight,
\* and a press of either provider button while an attempt is pending changes
\* nothing: no second connect call, activeProvider and isConnecting as before.
C1_SingleConnectAttempt ==
    [][ /\ Cardinality(AwaitingConnects') <= 1
        /\ (step'.event = "pressConnect" /\ AwaitingConnects # {})
              => /\ handlers' = handlers
                 /\ stack' = stack
                 /\ isConnecting' = isConnecting ]_vars

C1_Witness ==
    /\ step.event = "pressConnect"
    /\ step.arg = "apple"
    /\ Len(handlers) = 1
    /\ handlers[1].state = "awaiting"
    /\ handlers[1].provider = "google"
    /\ Top.activeProvider = "google"

\* C2: whenever handleDisconnect finishes, after a resolved or a rejected
\* disconnect(), the application is on the unauthenticated view and no alert
\* was shown.
C2_DisconnectAlwaysNavigates ==
    step.event \in {"disconnectSucceeded", "disconnectFailed"}
        => /\ Top.route = Home
           /\ step.alerts = <<>>

\* C3: a failed connect attempt whose error does not indicate cancellation
\* (an empty or absent message included) shows exactly one alert carrying the
\* error's message and leaves the attempt idle.
C3_FailureAlertsOnce ==
    (step.event = "connectFailed" /\ ~IndicatesCancellation(step.err))
        => /\ step.alerts = <<AlertCall("Connection Failed", step.err)>>
           /\ Top.activeProvider = NullProvider

\* C4: a failed connect attempt whose error message contains "cancelled"
\* shows no alert, records no error text, navigates nowhere and leaves the
\* attempt idle.
C4_CancelledIsSilent ==
    (step.event = "connectFailed" /\ IndicatesCancellation(step.err))
        => /\ step.alerts = <<>>
           /\ step.navs = <<>>
           /\ Top.route = Home
           /\ Top.userError = NoText
           /\ Top.activeProvider = NullProvider
           /\ handlers = <<>>

C4_Witness ==
    /\ step.event = "connectFailed"
    /\ step.err = Text(<<"U","s","e","r"," ">> \o Marker)
    /\ Top.activeProvider = NullProvider

\* C5: a modal connect view mounted while the session is disconnected and
\* the modal closed schedules exactly one timer; while the view stays
\* mounted the timer makes at most one modal.open() call, and exactly one
\* once its delay has elapsed, whatever the session and the modal did since.
C5_AutoOpenFiresOnce ==
    \A i \in DOMAIN stack :
        /\ stack[i].sched = (IF stack[i].idleAtMount THEN 1 ELSE 0)
        /\ stack[i].pend <= stack[i].sched
        /\ stack[i].opens <= 1
        /\ stack[i].opens = stack[i].sched - stack[i].pend

C5_Witness ==
    \E i \in DOMAIN stack :
        /\ stack[i].idleAtMount
        /\ stack[i].opens = 1
        /\ isConnected

\* C6: a modal connect view torn down before its delay elapses has its timer
\* cancelled: no timer outlives its view and no modal.open() is ever made on
\* behalf of a torn-down view.
C6_TeardownCancelsTimer ==
    /\ orphans = 0
    /\ tornOpens = 0

C6_Witness ==
    /\ tornEarly
    /\ variant = "modal"
    /\ ~modalOpened

\* C7: once the session observers queued by a change of the signal have run,
\* the focused view matches the signal ('/wallet' iff connected), and every
\* navigation an observer makes is a replace to that view.
C7_ObserverFollowsSignal ==
    /\ ObserversDrained => Top.route = TargetView
    /\ (step.event = "observer" /\ step.navs # <<>>)
          => /\ Len(step.navs) = 1
             /\ step.navs[1].kind = "replace"
             /\ step.navs[1].to = TargetView

C7_Witness ==
    /\ step.event = "observer"
    /\ step.navs = <<NavCall("WalletInfo", "replace", Home)>>
    /\ disc.state = "resolved"
    /\ Top.route = Home

\* C8: a rejected balance lookup leaves solBalance, and so the displayed
\* balance, as it was, shows no alert, navigates nowhere and clears the
\* loading flag.
C8_FetchFailureKeepsBalance ==
    [][ step'.event = "fetchRejected"
          => /\ Len(stack') = Len(stack)
             /\ \A i \in DOMAIN stack :
                   /\ stack'[i].solBalance = stack[i].solBalance
                   /\ DisplayedBalance(stack'[i].solBalance)
                        = DisplayedBalance(stack[i].solBalance)
                   /\ stack'[i].route = stack[i].route
             /\ ~stack'[Len(stack')].isLoadingBalance
             /\ step'.alerts = <<>>
             /\ step'.navs = <<>> ]_vars

C8_Witness ==
    /\ step.event = "fetchRejected"
    /\ Top.route = Wallet
    /\ Top.solBalance = 15
    /\ ~Top.isLoadingBalance

\* C9: a successful connect with provider "google" that yields one Solana and
\* one Ethereum address leads to the ready dashboard with both chain cards;
\* a successful disconnect then leads to the unauthenticated screen, which
\* stays focused as long as the session stays disconnected.
OneOfEach == Addresses(<<Addr(Sol, "A"), Addr(Eth, "B")>>)
GoogleConnected ==
    /\ addresses = OneOfEach
    /\ \E i \in DOMAIN handlers :
          handlers[i].provider = "google" /\ handlers[i].state = "resolved"
OnReadyDashboard ==
    /\ Quiescent
    /\ Top.route = Wallet
    /\ DashboardReady /\ SolanaCardShown /\ EthereumCardShown
OnUnauthenticated == Quiescent /\ ~isConnected /\ Top.route = Home

C9_Lifecycle ==
    /\ GoogleConnected ~> OnReadyDashboard
    /\ [](Quiescent /\ isConnected /\ addresses = OneOfEach => OnReadyDashboard)
    /\ (disc.state = "resolved") ~> OnUnauthenticated
    /\ [][(~isConnected /\ ~isConnected' /\ Top.route = Home)
             => Top'.route = Home]_vars

C9_Witness ==
    /\ variant = "direct"
    /\ connects = 1
    /\ disc.state = "idle"
    /\ Len(stack) = 2
    /\ stack[1].route = Home
    /\ stack[1].activeProvider = NullProvider
    /\ OnUnauthenticated

\* C10: selectAccount returns the first entry of the address sequence whose
\* chain type is the one asked for, and absent when there is none or the
\* sequence itself is absent or empty; for [solana:A, ethereum:B] and
\* ethereum it returns the entry with address B.
C10_SelectAccountFirstMatch ==
    /\ \A t \in {Sol, Eth} :
          LET l == addresses.list
              m == {i \in DOMAIN l : l[i].addressType = t}
              r == selectAccount(addresses, t)
          IN IF ~addresses.present \/ m = {}
             THEN r = NoAccount
             ELSE \E i \in m : r = l[i] /\ \A j \in m : i <= j
    /\ selectAccount(OneOfEach, Eth) = Addr(Eth, "B")
    /\ selectAccount(AbsentAddresses, Sol) = NoAccount

C10_Witness ==
    /\ addresses.list = <<Addr(Sol, "A"), Addr(Sol, "C")>>
    /\ solanaAccount = Addr(Sol, "A")
    /\ Top.route = Wallet

\* ----------------------------------------------------------------------
\* sign calls in flight that the dashboard at stack position i started
SignsOf(sg, i) == {k \in DOMAIN sg : sg[k].owner = i}

C12_SignCancellationRule ==
    step.event = "signFailed"
        => /\ step.arg \in Chains
           /\ IF IndicatesCancellation(step.err)
              THEN step.alerts = <<>>
              ELSE /\ Len(step.alerts) = 1
                   /\ step.alerts[1].title = "Error"
                   /\ step.alerts[1].message =
                         (IF step.err.defined /\ step.err.text # <<>>
                          THEN step.err
                          ELSE Text(<<"S","i","g","n","i","n","g"," ",
                                      "f","a","i","l","e","d">>))

C12_Witness ==
    /\ step.event = "signFailed"
    /\ step.arg = Eth
    /\ step.err = NoText
    /\ step.alerts = <<AlertCall("Error", SigningFailed)>>
    /\ ~Top.isSigning

\* C13: whenever the session signal reads disconnected, its address sequence
\* is empty, and so a mounted dashboard is in its loading view and shows
\* neither chain card.
C13_DisconnectedHasNoAddresses ==
    ~isConnected
        => /\ addresses.list = <<>>
           /\ solanaAccount = NoAccount /\ ethereumAccount = NoAccount
           /\ DashboardLoading /\ ~SolanaCardShown /\ ~EthereumCardShown

C13_Witness ==
    /\ ~isConnected
    /\ disc.state = "resolved"
    /\ Top.route = Wallet
    /\ addresses = Addresses(<<>>)
    /\ DashboardLoading

\* C14: while a getBalance call started by a mounted dashboard's fetchBalance
\* is in flight, that dashboard's isLoadingBalance is true, also when
\* fetches overlap.
FetchesOf(i) == {k \in DOMAIN fetches : fetches[k].owner = i}
C14_LoadingWhileFetching ==
    \A i \in DOMAIN stack : FetchesOf(i) # {} => stack[i].isLoadingBalance

\* C15: a dashboard's isSigning is true exactly while a sign call it started
\* is in flight: the handler clears it when the call resolves or rejects,
\* whatever the error; and as every sign call eventually completes, a
\* dashboard that is signing always comes back to idle.
C15_SignReturnsToIdle ==
    /\ [](\A i \in DOMAIN stack : stack[i].isSigning <=> SignsOf(signs, i) # {})
    /\ [][step'.event \in {"signSucceeded", "signFailed"}
            => /\ Len(signs') = Len(signs) - 1
               /\ \A i \in DOMAIN stack' : ~stack'[i].isSigning]_vars
    /\ (Top.route = Wallet /\ Top.isSigning) ~> ~Top.isSigning

C15_Witness ==
    /\ step.event = "signFailed"
    /\ IndicatesCancellation(step.err)
    /\ step.arg = Sol
    /\ Top.route = Wallet
    /\ ~Top.isSigning
    /\ signs = <<>>

HasChain(t) ==
    /\ addresses.present
    /\ \E i \in DOMAIN addresses.list : addresses.list[i].addressType = t

C18_AutoOpenOnlyWhenIdle ==
    [][step'.event = "timerFired" => (~isConnected /\ ~modalOpened)]_vars

\* C19: on a mounted dashboard whose balance effect has run, with no balance
\* lookup of its own in flight, a non-null solBalance is the result of a
\* lookup made for the currently selected Solana address.
C19_BalanceOfCurrentAddress ==
    \A i \in DOMAIN stack :
        ( /\ stack[i].route = Wallet
          /\ ~stack[i].balFx
          /\ FetchesOf(i) = {}
          /\ stack[i].solBalance # NullBalance
          /\ HasChain(Sol) )
            => stack[i].balanceFor = SolAddressOf(addresses)

\* C20: while the session signal reads connected, no step is a press of a
\* connect control (a provider button or 'Login with Phantom'): no
\* handleConnect starts, so no connect() call, and no modal.open() is made
\* from the connect control.
C20_NoConnectWhileConnected ==
    [][isConnected
         => /\ step'.event \notin {"pressConnect", "pressLogin"}
            /\ Len(handlers') <= Len(handlers)
            /\ AwaitingConnects' \subseteq AwaitingConnects]_vars

C20_Witness ==
    /\ isConnected
    /\ Top.route = Home
    /\ CanPressHome
    /\ ConnectHidden
    /\ ~ConnectDisabled
    /\ connects < MaxConnects

\* the session addresses hold an Ethereum entry with a non-empty address
HasEthereumAddress ==
    /\ addresses.present
    /\ \E i \in DOMAIN addresses.list :
          /\ addresses.list[i].addressType = Eth
          /\ addresses.list[i].address # ""

\* C21: a press of a sign control while the signer of its chain is
\* unavailable, or of the Ethereum control while no Ethereum address is
\* present, changes nothing: no sign call is started, no alert is shown, no
\* navigation is made and isSigning, like all component state, stays as it
\* was.
C21_FailedPreconditionIsNoOp ==
    [][ ( /\ step'.event = "pressSign"
          /\ \/ step'.arg \notin available
             \/ step'.arg = Eth /\ ~HasEthereumAddress )
          => /\ signs' = signs
             /\ stack' = stack
             /\ step'.alerts = <<>>
             /\ step'.navs = <<>> ]_vars

C21_Witness ==
    /\ step.event = "pressSign"
    /\ step.arg = Eth
    /\ Eth \in available
    /\ EthereumCardShown
    /\ ~HasEthereumAddress
    /\ ~Top.isSigning
    /\ signs = <<>>
====
